---------------------------- MODULE Spec2Model ----------------------------
(***************************************************************************)
(* ArchiveDownloader (TreasureHunter): the concurrent                      *)
(* scan -> extract -> download pipeline.                                   *)
(*                                                                         *)
(*   main goroutine : validates the flags, starts the workers and the      *)
(*                    collector, runs the scanner over every scan root,    *)
(*                    then closes jobs, waits for the workers, closes      *)
(*                    results, waits for the collector, prints the stats.  *)
(*   worker(id)     : for filePath := range jobs { results <- processFile }*)
(*   collectResults : for result := range results { add to the counters }  *)
(*                                                                         *)
(* A file name is a pair <<stem, ext>> (stem a number, ext the text from   *)
(* the last dot, "" for a directory name); a path is a sequence of names.  *)
(* Directory listings are sorted by name, as os.ReadDir and filepath.Walk  *)
(* return them.                                                            *)
(***************************************************************************)
EXTENDS Integers, Sequences, FiniteSets, Bags, TLC

VARIABLES
    cfg,            \* flags, directories, servers, the files at the start:
                    \* fixed during a run
    fs,             \* regular files on disk: path -> file record
    main,           \* the main goroutine (it runs the scanner itself)
    jobs,           \* chan string: buffered paths
    jobsClosed,
    results,        \* chan Result: buffered results
    resultsClosed,
    wk,             \* worker goroutines, 1..workers once started
    agg,            \* the collectResults goroutine
    stats,          \* the five counters of Stats
    summary,        \* the counters as main printed them
    hist            \* history: the paths enqueued, taken, pushed and consumed
                    \* so far, and the download outcomes the workers produced

vars == <<cfg, fs, main, jobs, jobsClosed, results, resultsClosed, wk, agg,
          stats, summary, hist>>

-----------------------------------------------------------------------------
(* Bounds of the model *)

MaxWorkers == 2      \* worker counts 1..MaxWorkers are explored
SmallCap == 1        \* channel capacity used where the run is small
MaxSubdirs == 12     \* subdirectories under a recursively scanned root
MaxScanFiles == 3    \* files placed in a tree of the scanner specification
FullFiles == 102     \* files of the run with the channels at their real size
MaxTokens == 2       \* candidate strings in the file handed to the extractor
MaxRuns == 2         \* runs of the program over the same tree, one after another
MaxParts == 3        \* runs of one character in a Content-Disposition file name

(* Program constants *)

JobsCapacity == 100     \* make(chan string, 100)
ResultsCapacity == 100  \* make(chan Result, 100)
BatchDivisor == 10      \* math.Ceil(float64(len(subdirs)) / 10.0)

-----------------------------------------------------------------------------
(* Names and paths *)

Dn(k) == <<k, "">>                      \* a directory name
Dir(p) == SubSeq(p, 1, Len(p) - 1)      \* filepath.Dir
Base(p) == p[Len(p)]                    \* filepath.Base
Ext(p) == Base(p)[2]                    \* filepath.Ext
Join(d, name) == Append(d, name)        \* filepath.Join

IsPrefix(a, b) == Len(a) <= Len(b) /\ SubSeq(b, 1, Len(a)) = a

ExtRank(e) ==
    CASE e = ""      -> 0
      [] e = ".MD"   -> 1
      [] e = ".bin"  -> 2
      [] e = ".htm"  -> 3
      [] e = ".html" -> 4
      [] e = ".md"   -> 5
      [] e = ".txt"  -> 6
      [] e = ".url"  -> 7
      [] OTHER       -> 8

NameLess(a, b) == a[1] < b[1] \/ (a[1] = b[1] /\ ExtRank(a[2]) < ExtRank(b[2]))

ToLower(e) == IF e = ".MD" THEN ".md" ELSE e

supportedExtensions == {".url", ".md", ".html", ".htm", ".txt"}

(* Mutant: the extension is compared as written *)
isSupportedFileExact(p) == Ext(p) \in supportedExtensions

isSupportedFile(p) == ToLower(Ext(p)) \in supportedExtensions

SortByName(S) ==
    LET Rank(x) == 1 + Cardinality({y \in S : NameLess(Base(y), Base(x))})
    IN  [i \in 1..Cardinality(S) |-> CHOOSE x \in S : Rank(x) = i]

(* The entries of directory d as the filesystem holds them now *)
Children(d, dirs, files) ==
    {p \in dirs \cup files : Len(p) = Len(d) + 1 /\ Dir(p) = d}

ReadDir(d) == SortByName(Children(d, cfg.dirs, DOMAIN fs))

Readable(d) == d \in cfg.dirs /\ d \notin cfg.unreadable

(* getSubdirectories: the immediate subdirectories, in name order *)
getSubdirectories(d) == SortByName(Children(d, cfg.dirs, {}))

CeilDiv(n, d) == (n + d - 1) \div d

Min(a, b) == IF a < b THEN a ELSE b


-----------------------------------------------------------------------------
(* Strings are sequences of characters.                                    *)

HasPrefix(s, p) == Len(p) <= Len(s) /\ SubSeq(s, 1, Len(p)) = p

Contains(s, sub) ==
    \E i \in 0..(Len(s) - Len(sub)) : SubSeq(s, i + 1, i + Len(sub)) = sub

LowerChar(c) ==
    CASE c = "A" -> "a" [] c = "C" -> "c" [] c = "E" -> "e" [] c = "L" -> "l"
      [] c = "M" -> "m" [] c = "O" -> "o" [] c = "P" -> "p" [] c = "X" -> "x"
      [] OTHER -> c

StringsToLower(s) == [i \in 1..Len(s) |-> LowerChar(s[i])]

TrimSpace(s) ==
    LET keep == {i \in 1..Len(s) : s[i] # " "}
    IN  IF keep = {} THEN <<>>
        ELSE LET lo == CHOOSE i \in keep : \A j \in keep : i <= j
                 hi == CHOOSE i \in keep : \A j \in keep : j <= i
             IN  SubSeq(s, lo, hi)

Http == <<"h", "t", "t", "p", ":", "/", "/">>
Https == <<"h", "t", "t", "p", "s", ":", "/", "/">>

Blacklist ==
    { <<"e", "x", "a", "m", "p", "l", "e", ".", "c", "o", "m">>,
      <<"e", "x", "a", "m", "p", "l", "e", ".", "o", "r", "g">>,
      <<"l", "o", "c", "a", "l", "h", "o", "s", "t">>,
      <<"1", "2", "7", ".", "0", ".", "0", ".", "1">> }

MinURLLen == 10

(* isValidURL (README 660-681) *)
isValidURL(url) ==
    /\ HasPrefix(url, Http) \/ HasPrefix(url, Https)
    /\ Len(url) >= MinURLLen
    /\ \A b \in Blacklist : ~Contains(StringsToLower(url), b)

(* The strings that occur in the files of the model, as the patterns of    *)
(* the extractor match them (a .url file: the values of its URL= and       *)
(* BaseURL= lines):                                                        *)
(*    1  http://a.io/7.zip        6  ftp://a.io/7.zip                      *)
(*    2  http://b.io/7.zip        7  http://a                              *)
(*    3  http://a.io/8            8  http://EXAMPLE.com/7                  *)
(*    4  https://github.com/o/9   9  http://localhost/7                    *)
(*    5  http://a.io/6.html      10  " http://a.io/7.zip"                  *)
(*   11  ""      12  https://127.0.0.1/7      13  http://example.org/7     *)
(*   14  http://a.io/..%5C7.zip               15  http://a.io/7/..         *)
Text(k) ==
    CASE k = 1  -> Http \o <<"a", ".", "i", "o", "/", "7", ".", "z", "i", "p">>
      [] k = 2  -> Http \o <<"b", ".", "i", "o", "/", "7", ".", "z", "i", "p">>
      [] k = 3  -> Http \o <<"a", ".", "i", "o", "/", "8">>
      [] k = 4  -> Https \o <<"g", "i", "t", "h", "u", "b", ".", "c", "o", "m",
                               "/", "o", "/", "9">>
      [] k = 5  -> Http \o <<"a", ".", "i", "o", "/", "6", ".", "h", "t", "m", "l">>
      [] k = 6  -> <<"f", "t", "p", ":", "/", "/", "a", ".", "i", "o", "/", "7",
                     ".", "z", "i", "p">>
      [] k = 7  -> Http \o <<"a">>
      [] k = 8  -> Http \o <<"E", "X", "A", "M", "P", "L", "E", ".", "c", "o", "m",
                              "/", "7">>
      [] k = 9  -> Http \o <<"l", "o", "c", "a", "l", "h", "o", "s", "t", "/", "7">>
      [] k = 10 -> <<" ">> \o Http \o <<"a", ".", "i", "o", "/", "7", ".", "z", "i", "p">>
      [] k = 11 -> <<>>
      [] k = 12 -> Https \o <<"1", "2", "7", ".", "0", ".", "0", ".", "1", "/", "7">>
      [] k = 13 -> Http \o <<"e", "x", "a", "m", "p", "l", "e", ".", "o", "r", "g",
                              "/", "7">>
      [] k = 14 -> Http \o <<"a", ".", "i", "o", "/", ".", ".", "%", "5", "C", "7",
                              ".", "z", "i", "p">>
      [] k = 15 -> Http \o <<"a", ".", "i", "o", "/", "7", "/", ".", ".">>

(* A string with what url.Parse, path.Base and githubRepoPattern make of  *)
(* it: [id, name, gh]; Text(id) is the string, name the last segment of   *)
(* its path, gh says that isGitHubRepoURL matches it.                     *)
(* The name ..\name, which url.Parse makes of ..%5Cname, is written with  *)
(* the negated number; DotDot is the name ".."                            *)
Up(name) == <<0 - name[1], name[2]>>
IsUp(name) == name[1] < 0
DotDot == <<0, "..">>

UrlName(k) ==
    CASE k \in {1, 2} -> <<7, ".zip">>
      [] k = 3 -> <<8, "">>
      [] k = 4 -> <<9, "">>
      [] k = 5 -> <<6, ".html">>
      [] k = 14 -> Up(<<7, ".zip">>)
      [] k = 15 -> DotDot
      [] OTHER -> <<7, "">>

Candidates == {[id |-> k, name |-> UrlName(k), gh |-> k = 4] : k \in 1..13}

(* The candidates that are URLs the downloader is handed *)
URLs == {c \in Candidates : c.id \in 1..5}

(* URLs whose last path segment is not a plain file name *)
Traversals == {[id |-> k, name |-> UrlName(k), gh |-> FALSE] : k \in 14..15}

Url(k) == CHOOSE u \in Candidates \cup Traversals : u.id = k

(* A regular file: the candidates its text holds (in document order),     *)
(* whether it can be read, which worker's download wrote it (0:            *)
(* it was there before the run) and whether that write has finished.       *)
File(urls, ok) == [urls |-> urls, ok |-> ok, by |-> 0, complete |-> TRUE]

-----------------------------------------------------------------------------
(* The state a run starts in *)

NoResult == [FilePath |-> <<>>, URLsFound |-> 0, DownloadResults |-> <<>>]

(* History of a run: its number, the paths enqueued, taken, pushed and    *)
(* consumed, the tally of the outcomes the workers produced, the          *)
(* <<URL, destination>> pairs downloaded with success and the URLs tried; *)
(* first is what the run before left of these; scans holds the index of   *)
(* each root whose own entries were read (os.ReadDir), walked the         *)
(* <<root index, directory>> of each filepath.Walk that has returned.     *)
NoFirstRun == [succ |-> {}, tried |-> {}, kept |-> {}]

HistStart(run, first) ==
    [run |-> run, enq |-> <<>>, taken |-> EmptyBag, pushed |-> EmptyBag,
     consumed |-> EmptyBag,
     made |-> [success |-> 0, skipped |-> 0, failed |-> 0],
     succ |-> {}, tried |-> {}, first |-> first,
     scans |-> <<>>, walked |-> <<>>]

MainStart ==
    [pc |-> "validate", root |-> 1, subdirs |-> <<>>, batchSize |-> 0,
     i |-> 0, end |-> 0, k |-> 0, todo |-> <<>>, path |-> <<>>,
     batches |-> <<>>]

Start(tree, scanDirs, recursive, workers, cap, net) ==
    /\ cfg = [dirs |-> tree.dirs, unreadable |-> tree.unreadable,
              scanDirs |-> scanDirs, recursive |-> recursive, workers |-> workers,
              jobsCap |-> cap.jobs, resultsCap |-> cap.results,
              server |-> net.server, faults |-> net.faults, body |-> net.body,
              goos |-> IF "goos" \in DOMAIN net THEN net.goos ELSE "linux",
              initial |-> DOMAIN tree.files]
    /\ fs = tree.files
    /\ main = MainStart
    /\ jobs = <<>>
    /\ jobsClosed = FALSE
    /\ results = <<>>
    /\ resultsClosed = FALSE
    /\ wk = <<>>
    /\ agg = [pc |-> "idle", cur |-> NoResult, idx |-> 0]
    /\ stats = [FilesScanned |-> 0, URLsFound |-> 0, DownloadSuccess |-> 0,
                DownloadSkipped |-> 0, DownloadFailed |-> 0]
    /\ summary = <<>>
    /\ hist = HistStart(1, NoFirstRun)

-----------------------------------------------------------------------------
(* main: flag validation and start-up *)

WorkerStart ==
    [pc |-> "recv", filePath |-> <<>>, urls |-> <<>>, n |-> 0,
     result |-> NoResult, dest |-> <<>>, branch |-> 0, gets |-> 0,
     created |-> FALSE, status |-> 0, cd |-> <<>>, cdFilename |-> <<>>]

(* Mutant: only the first root is looked up *)
ValidateFirstRoot ==
    /\ main.pc = "validate"
    /\ main' = [main EXCEPT !.pc =
           IF cfg.workers <= 0 THEN "fatal"
           ELSE IF Len(cfg.scanDirs) = 0 THEN "fatal"
           ELSE IF cfg.scanDirs[1] \notin cfg.dirs THEN "fatal"
           ELSE "start"]
    /\ UNCHANGED <<cfg, fs, jobs, jobsClosed, results, resultsClosed, wk, agg,
                   stats, summary, hist>>

(* main.go 63-91: log.Fatalf on a bad worker count, no roots, a missing root *)
Validate ==
    /\ main.pc = "validate"
    /\ main' = [main EXCEPT !.pc =
           IF cfg.workers <= 0 THEN "fatal"
           ELSE IF Len(cfg.scanDirs) = 0 THEN "fatal"
           ELSE IF \E r \in 1..Len(cfg.scanDirs) : cfg.scanDirs[r] \notin cfg.dirs
                THEN "fatal"
           ELSE "start"]
    /\ UNCHANGED <<cfg, fs, jobs, jobsClosed, results, resultsClosed, wk, agg,
                   stats, summary, hist>>

(* Mutant: the loop runs once too often *)
WorkerIdsOneMore == 1..(cfg.workers + 1)

(* main.go 113: for i := 0; i < workers; i++, worker ids i+1 *)
WorkerIds == 1..cfg.workers

(* main.go 104-121: make the channels, go worker x workers, go collectResults *)
StartPipeline ==
    /\ main.pc = "start"
    /\ jobs' = <<>>
    /\ results' = <<>>
    /\ wk' = [w \in WorkerIds |-> WorkerStart]
    /\ agg' = [agg EXCEPT !.pc = "recv"]
    /\ main' = [main EXCEPT !.pc = "scan", !.root = 1]
    /\ UNCHANGED <<cfg, fs, jobsClosed, resultsClosed, stats, summary, hist>>

-----------------------------------------------------------------------------
(* main: the scanner.  Everything but main, jobs and hist is untouched.    *)

ScannerFrame ==
    UNCHANGED <<cfg, fs, jobsClosed, results, resultsClosed, wk, agg, stats,
                summary>>

(* Leave scanDirectoryWithBatches: the loop of main.go 124-126 goes on *)
NextRoot(m) == [m EXCEPT !.pc = "scan", !.root = m.root + 1, !.todo = <<>>]

(* Mutant: integer division in place of math.Ceil *)
BatchSizeFloor(n) == IF n \div BatchDivisor = 0 THEN 1 ELSE n \div BatchDivisor

(* README 339-343: batchSize := ceil(N / 10), 1 if that is 0 *)
BatchSize(n) ==
    IF CeilDiv(n, BatchDivisor) = 0 THEN 1 ELSE CeilDiv(n, BatchDivisor)

(* scanDirectoryWithBatches, entry (README 321-346) *)
ScanRoot ==
    /\ main.pc = "scan"
    /\ main.root <= Len(cfg.scanDirs)
    /\ LET rootDir == cfg.scanDirs[main.root]
           subdirs == getSubdirectories(rootDir)
       IN  main' =
             IF ~cfg.recursive \/ ~Readable(rootDir) \/ Len(subdirs) = 0
             THEN [main EXCEPT !.pc = "readdir", !.batches = <<>>,
                               !.subdirs = <<>>]
             ELSE [main EXCEPT !.pc = "batch", !.subdirs = subdirs,
                               !.batchSize = BatchSize(Len(subdirs)),
                               !.i = 0, !.batches = <<>>]
    /\ UNCHANGED <<jobs, hist>>
    /\ ScannerFrame

(* Mutant: the loop ends one batch early *)
BatchLoopOneShort ==
    /\ main.pc = "batch"
    /\ main' =
         IF main.i + main.batchSize < Len(main.subdirs)
         THEN LET end == Min(main.i + main.batchSize, Len(main.subdirs))
              IN  [main EXCEPT !.pc = "batchdir", !.end = end, !.k = main.i + 1,
                               !.batches = Append(@, end - main.i)]
         ELSE [main EXCEPT !.pc = "readdir"]
    /\ UNCHANGED <<jobs, hist>>
    /\ ScannerFrame

(* The outer batch loop (README 365-371): form the next batch, or go on to *)
(* the root's own files (README 384)                                       *)
BatchLoop ==
    /\ main.pc = "batch"
    /\ main' =
         IF main.i < Len(main.subdirs)
         THEN LET end == Min(main.i + main.batchSize, Len(main.subdirs))
              IN  [main EXCEPT !.pc = "batchdir", !.end = end, !.k = main.i + 1,
                               !.batches = Append(@, end - main.i)]
         ELSE [main EXCEPT !.pc = "readdir"]
    /\ UNCHANGED <<jobs, hist>>
    /\ ScannerFrame

(* The inner loop (README 374-377): walk the next directory of the batch *)
BatchDir ==
    /\ main.pc = "batchdir"
    /\ main' =
         IF main.k <= main.end
         THEN [main EXCEPT !.pc = "walk", !.todo = <<main.subdirs[main.k]>>]
         ELSE [main EXCEPT !.pc = "batch", !.i = main.i + main.batchSize]
    /\ UNCHANGED <<jobs, hist>>
    /\ ScannerFrame

(* One visit of filepath.Walk (README 414-431): a directory is listed     *)
(* (an unreadable one is warned about and skipped), a file that is gone    *)
(* is warned about, a supported file goes to jobs <- path.                 *)
WalkVisit ==
    /\ main.pc = "walk"
    /\ main' =
         IF main.todo = <<>>
         THEN [main EXCEPT !.pc = "batchdir", !.k = main.k + 1]
         ELSE LET p == Head(main.todo)
                  rest == Tail(main.todo)
              IN  IF p \in cfg.dirs
                  THEN [main EXCEPT !.todo =
                          IF Readable(p) THEN ReadDir(p) \o rest ELSE rest]
                  ELSE IF p \in DOMAIN fs /\ isSupportedFile(p)
                  THEN [main EXCEPT !.pc = "emit", !.path = p, !.todo = rest]
                  ELSE [main EXCEPT !.todo = rest]
    /\ hist' = IF main.todo = <<>>
               THEN [hist EXCEPT !.walked =
                       Append(@, <<main.root, main.subdirs[main.k]>>)]
               ELSE hist
    /\ UNCHANGED jobs
    /\ ScannerFrame

(* Mutant: the buffer takes one path more than its capacity *)
CanSendJobOneMore == Len(jobs) <= cfg.jobsCap

(* jobs <- path: blocks while the buffer is full *)
CanSendJob == Len(jobs) < cfg.jobsCap

(* scanDirectory, non-recursive (README 438-453): os.ReadDir, and of its  *)
(* entries the ones the loop sends: not a directory, supported extension  *)
Sendable(p) == p \notin cfg.dirs /\ isSupportedFile(p)

ReadDirStep ==
    /\ main.pc = "readdir"
    /\ LET dir == cfg.scanDirs[main.root]
       IN  main' = IF Readable(dir)
                   THEN [main EXCEPT !.pc = "list",
                                     !.todo = SelectSeq(ReadDir(dir), Sendable)]
                   ELSE NextRoot(main)
    /\ hist' = [hist EXCEPT !.scans = Append(@, main.root)]
    /\ UNCHANGED jobs
    /\ ScannerFrame

(* Mutant: the scanner counts the file in the stats it is handed *)
ListSendCounting ==
    /\ main.pc = "list"
    /\ main.todo # <<>>
    /\ CanSendJob
    /\ jobs' = Append(jobs, Head(main.todo))
    /\ hist' = [hist EXCEPT !.enq = Append(@, Head(main.todo))]
    /\ main' = [main EXCEPT !.todo = Tail(@)]
    /\ stats' = [stats EXCEPT !.FilesScanned = @ + 1]
    /\ UNCHANGED <<cfg, fs, jobsClosed, results, resultsClosed, wk, agg, summary>>

(* The loop over the entries (README 444-453): jobs <- filePath for the   *)
(* next one to send                                                       *)
ListSend ==
    /\ main.pc = "list"
    /\ main.todo # <<>>
    /\ CanSendJob
    /\ jobs' = Append(jobs, Head(main.todo))
    /\ hist' = [hist EXCEPT !.enq = Append(@, Head(main.todo))]
    /\ main' = [main EXCEPT !.todo = Tail(@)]
    /\ ScannerFrame

(* The loop is over: scanDirectoryWithBatches returns *)
ListEnd ==
    /\ main.pc = "list"
    /\ main.todo = <<>>
    /\ main' = NextRoot(main)
    /\ UNCHANGED <<jobs, hist>>
    /\ ScannerFrame

(* jobs <- path inside the walk (README 427) *)
WalkSend ==
    /\ main.pc = "emit"
    /\ CanSendJob
    /\ jobs' = Append(jobs, main.path)
    /\ hist' = [hist EXCEPT !.enq = Append(@, main.path)]
    /\ main' = [main EXCEPT !.pc = "walk", !.path = <<>>]
    /\ ScannerFrame

-----------------------------------------------------------------------------
(* Workers (worker.go) *)

WorkerFrame ==
    UNCHANGED <<cfg, main, jobsClosed, resultsClosed, agg, stats, summary>>

Bag1(x) == SetToBag({x})

RECURSIVE Perms(_)
Perms(S) ==
    IF S = {} THEN {<<>>}
    ELSE UNION { { <<x>> \o t : t \in Perms(S \ {x}) } : x \in S }

Range(q) == {q[i] : i \in 1..Len(q)}

(* The extractor (README 488-657).  fs[p].urls holds the strings the      *)
(* patterns match in the file, in document order.                         *)
ExtractFails(p) ==
    \/ p \notin DOMAIN fs
    \/ ~fs[p].ok
    \/ ToLower(Ext(p)) \notin supportedExtensions

Parsed(str) == CHOOSE u \in Candidates \cup Traversals : Text(u.id) = str

Trimmed(cands) == [i \in 1..Len(cands) |-> TrimSpace(Text(cands[i].id))]

NonEmptyValid(str) == str # <<>> /\ isValidURL(str)

ParsedAll(strs) == [i \in 1..Len(strs) |-> Parsed(strs[i])]

(* extractURLsFromURLFile (README 506-540): every URL= or BaseURL= line   *)
(* whose value is valid is appended                                       *)
extractURLsFromURLFile(cands) ==
    {ParsedAll(SelectSeq(Trimmed(cands), NonEmptyValid))}

(* extractURLsFromMarkdown, extractURLsFromHTML, extractURLsFromText      *)
(* (README 543-657): the valid matches are the keys of a map, returned in *)
(* the order the map is iterated                                          *)
extractURLsFromMap(cands) ==
    {ParsedAll(q) : q \in Perms({str \in Range(Trimmed(cands)) : isValidURL(str)})}

extractURLsFromFile(p) ==
    IF ToLower(Ext(p)) = ".url" THEN extractURLsFromURLFile(fs[p].urls)
    ELSE extractURLsFromMap(fs[p].urls)

(* for filePath := range jobs, a path is buffered (worker.go 22) *)
WorkerRecv(w) ==
    /\ wk[w].pc = "recv"
    /\ Len(jobs) > 0
    /\ jobs' = Tail(jobs)
    /\ wk' = [wk EXCEPT ![w].pc = "extract", ![w].filePath = Head(jobs)]
    /\ hist' = [hist EXCEPT !.taken = @ (+) Bag1(Head(jobs))]
    /\ UNCHANGED <<fs, results>>
    /\ WorkerFrame

(* Mutant: the worker leaves its loop as soon as jobs is empty *)
WorkerExitOnEmpty(w) ==
    /\ wk[w].pc = "recv"
    /\ Len(jobs) = 0
    /\ wk' = [wk EXCEPT ![w].pc = "done"]
    /\ UNCHANGED <<fs, jobs, results, hist>>
    /\ WorkerFrame

(* Mutant: the worker returns without wg.Done() *)
WorkerExitNoDone(w) ==
    /\ wk[w].pc = "recv"
    /\ Len(jobs) = 0
    /\ jobsClosed
    /\ wk' = [wk EXCEPT ![w].pc = "returned"]
    /\ UNCHANGED <<fs, jobs, results, hist>>
    /\ WorkerFrame

(* for filePath := range jobs, jobs is closed and drained; wg.Done() *)
WorkerExit(w) ==
    /\ wk[w].pc = "recv"
    /\ Len(jobs) = 0
    /\ jobsClosed
    /\ wk' = [wk EXCEPT ![w].pc = "done"]
    /\ UNCHANGED <<fs, jobs, results, hist>>
    /\ WorkerFrame

(* processFile, worker.go 30-46 *)
NewResult(p, n) == [FilePath |-> p, URLsFound |-> n, DownloadResults |-> <<>>]

(* Mutant: a file that cannot be read yields no Result *)
WorkerExtractDropsFailed(w) ==
    /\ wk[w].pc = "extract"
    /\ LET p == wk[w].filePath
       IN  IF ExtractFails(p)
           THEN wk' = [wk EXCEPT ![w].pc = "recv", ![w].filePath = <<>>]
           ELSE \E urls \in extractURLsFromFile(p) :
                  wk' = [wk EXCEPT ![w].pc = IF Len(urls) = 0 THEN "send" ELSE "dl",
                                   ![w].result = NewResult(p, Len(urls)),
                                   ![w].urls = urls, ![w].n = 1]
    /\ UNCHANGED <<fs, jobs, results, hist>>
    /\ WorkerFrame

WorkerExtract(w) ==
    /\ wk[w].pc = "extract"
    /\ LET p == wk[w].filePath
       IN  IF ExtractFails(p)
           THEN wk' = [wk EXCEPT ![w].pc = "send", ![w].result = NewResult(p, 0),
                                 ![w].urls = <<>>, ![w].n = 0]
           ELSE \E urls \in extractURLsFromFile(p) :
                  wk' = [wk EXCEPT ![w].pc = IF Len(urls) = 0 THEN "send" ELSE "dl",
                                   ![w].result = NewResult(p, Len(urls)),
                                   ![w].urls = urls, ![w].n = 1]
    /\ UNCHANGED <<fs, jobs, results, hist>>
    /\ WorkerFrame

(* A DownloadResult; Error is [kind, code]: the HTTP status for kind      *)
(* "status", and for "exists" the existence check that found the file     *)
(* (1: the name resolved from the URL, 2: the Content-Disposition name).   *)
(* Gets, Created and Status are history: the requests the call issued,    *)
(* whether its os.Create succeeded, and the status of the last response   *)
(* it received (0: none).                                                 *)
NoError == [kind |-> "", code |-> 0]
Err(kind, code) == [kind |-> kind, code |-> code]

DownloadResult(u, path, success, skipped, error) ==
    [URL |-> u.id, FilePath |-> path, Success |-> success, Skipped |-> skipped,
     Error |-> error, Gets |-> 0, Created |-> FALSE, Status |-> 0]

(* Mutant: processFile returns at the first download that fails *)
ReturnedStopsAtFailure(r, dr) ==
    LET last == r.n = Len(r.urls) \/ (~dr.Success /\ ~dr.Skipped)
    IN  [r EXCEPT !.result.DownloadResults =
                      Append(@, [dr EXCEPT !.Gets = r.gets, !.Created = r.created,
                                           !.Status = r.status]),
                  !.n = r.n + 1, !.dest = <<>>, !.branch = 0, !.gets = 0,
                  !.created = FALSE, !.status = 0, !.cd = <<>>, !.cdFilename = <<>>,
                  !.pc = IF last THEN "send" ELSE "dl"]

(* worker.go 54-68: the DownloadResult is appended and the loop goes on, *)
(* or processFile returns                                                *)
Returned(r, dr) ==
    LET last == r.n = Len(r.urls)
    IN  [r EXCEPT !.result.DownloadResults =
                      Append(@, [dr EXCEPT !.Gets = r.gets, !.Created = r.created,
                                           !.Status = r.status]),
                  !.n = r.n + 1, !.dest = <<>>, !.branch = 0, !.gets = 0,
                  !.created = FALSE, !.status = 0, !.cd = <<>>, !.cdFilename = <<>>,
                  !.pc = IF last THEN "send" ELSE "dl"]

(* History: the outcome worker w appended in this step, if it did *)
Tally(m, dr) ==
    IF dr.Success THEN [m EXCEPT !.success = @ + 1]
    ELSE IF dr.Skipped THEN [m EXCEPT !.skipped = @ + 1]
    ELSE [m EXCEPT !.failed = @ + 1]

Noted(w) ==
    LET before == wk[w].result.DownloadResults
        after == wk'[w].result.DownloadResults
        dr == after[Len(after)]
    IN  hist' = IF Len(after) > Len(before)
                THEN [hist EXCEPT !.made = Tally(@, dr),
                                  !.tried = @ \cup {dr.URL},
                                  !.succ = IF dr.Success
                                           THEN @ \cup {<<dr.URL, dr.FilePath>>}
                                           ELSE @]
                ELSE hist

(* getFilenameFromURL (downloader.go 220-241): a name without a dot gets .bin *)
getFilenameFromURL(u) == IF u.name[2] = "" THEN <<u.name[1], ".bin">> ELSE u.name

(* The GitHub branch names the file owner-repo.zip (downloader.go 48) *)
githubFilename(u) == <<u.name[1], ".zip">>

(* filepath.Join(targetDir, filename) (downloader.go 49, 122): the result *)
(* is cleaned, so ".." names the parent, and where the backslash is a     *)
(* separator (GOOS windows) so does the start of ..\name                  *)
filepathJoin(dir, name) ==
    IF name = DotDot THEN Dir(dir)
    ELSE IF IsUp(name) /\ cfg.goos = "windows" THEN Join(Dir(dir), Up(name))
    ELSE Join(dir, name)

(* Mutant: only a directory counts as being there *)
ExistsDirOnly(path) == path \in cfg.dirs

Exists(path) == path \in DOMAIN fs \/ path \in cfg.dirs     \* os.Stat: err == nil

(* The name downloadURL resolves before any request (downloader.go 48, 115) *)
FirstName(u) == IF u.gh THEN githubFilename(u) ELSE getFilenameFromURL(u)

(* Mutant: the request is issued before the existence check *)
WorkerDownloadRequestFirst(w) ==
    /\ wk[w].pc = "dl"
    /\ LET r == [wk[w] EXCEPT !.gets = 1]
           u == r.urls[r.n]
           filePath == filepathJoin(Dir(r.filePath), FirstName(u))
       IN  wk' = [wk EXCEPT ![w] =
                IF Exists(filePath)
                THEN Returned(r, DownloadResult(u, filePath, FALSE, TRUE,
                                                Err("exists", 1)))
                ELSE [r EXCEPT !.pc = IF u.gh THEN "ghget" ELSE "get",
                               !.dest = filePath, !.branch = IF u.gh THEN 1 ELSE 0]]
    /\ Noted(w)
    /\ UNCHANGED <<fs, jobs, results>>
    /\ WorkerFrame

(* downloadURL up to the first request (downloader.go 37-57, 113-130):    *)
(* the destination is resolved and checked; an existing one is skipped    *)
WorkerDownload(w) ==
    /\ wk[w].pc = "dl"
    /\ LET r == wk[w]
           u == r.urls[r.n]
           targetDir == Dir(r.filePath)
           filePath == filepathJoin(targetDir, FirstName(u))
       IN  wk' = [wk EXCEPT ![w] =
                IF Exists(filePath)
                THEN Returned(r, DownloadResult(u, filePath, FALSE, TRUE,
                                                Err("exists", 1)))
                ELSE [r EXCEPT !.pc = IF u.gh THEN "ghget" ELSE "get",
                               !.dest = filePath, !.branch = IF u.gh THEN 1 ELSE 0]]
    /\ Noted(w)
    /\ UNCHANGED <<fs, jobs, results>>
    /\ WorkerFrame

(* The text of a file name is a sequence of runs <<c, n>>: the character  *)
(* c repeated n >= 1 times.                                               *)
RECURSIVE TextLen(_)
TextLen(t) == IF t = <<>> THEN 0 ELSE Head(t)[2] + TextLen(Tail(t))

(* t[:n] *)
RECURSIVE Prefix(_, _)
Prefix(t, n) ==
    IF n = 0 \/ t = <<>> THEN <<>>
    ELSE IF Head(t)[2] <= n THEN <<Head(t)>> \o Prefix(Tail(t), n - Head(t)[2])
    ELSE << <<Head(t)[1], n>> >>

(* strings.Trim(t, cutset) *)
Trim(t, cutset) ==
    LET keep == {i \in 1..Len(t) : t[i][1] \notin cutset}
    IN  IF keep = {} THEN <<>>
        ELSE LET lo == CHOOSE i \in keep : \A j \in keep : i <= j
                 hi == CHOOSE i \in keep : \A j \in keep : j <= i
             IN  SubSeq(t, lo, hi)

(* filepath.Ext: the text from the last dot on, "" without a dot *)
filepathExt(t) ==
    LET dots == {i \in 1..Len(t) : t[i][1] = "."}
    IN  IF dots = {} THEN <<>>
        ELSE LET i == CHOOSE k \in dots : \A j \in dots : j <= k
             IN  << <<".", 1>> >> \o SubSeq(t, i + 1, Len(t))

(* A file name as a Content-Disposition header carries it: the text of    *)
(* the filename= value and the file that the text, once sanitized, names; *)
(* Hint(name, baseLen, extLen) is a value of baseLen letters followed by  *)
(* an extension of extLen characters (the dot and letters); NoHint is a   *)
(* header without a file name.                                            *)
HintText(name, text) == [name |-> name, text |-> text]
Hint(name, baseLen, extLen) ==
    HintText(name, (IF baseLen > 0 THEN << <<"a", baseLen>> >> ELSE <<>>)
                   \o (IF extLen > 0 THEN << <<".", 1>> >> ELSE <<>>)
                   \o (IF extLen > 1 THEN << <<"b", extLen - 1>> >> ELSE <<>>))
NoHint == Hint(<<>>, 0, 0)

MaxFilenameLen == 200

(* A name cut to its first characters is another name *)
Cut(name) == <<name[1] + 100, name[2]>>

Invalid == {"<", ">", ":", "\"", "/", "\\", "|", "?", "*"}
Whitespace == {" ", "\t", "\n", "\r"}

(* sanitizeFilename (downloader.go 278-297): the invalid characters are   *)
(* replaced by "_", then spaces are trimmed, then dots; a result longer   *)
(* than 200 becomes filename[:200-len(ext)] + ext, and a negative slice   *)
(* bound panics                                                           *)
sanitizeFilename(f) ==
    LET replaced == [i \in 1..Len(f.text) |->
                       IF f.text[i][1] \in Invalid THEN <<"_", f.text[i][2]>>
                       ELSE f.text[i]]
        filename == Trim(Trim(replaced, Whitespace), {"."})
        ext == filepathExt(filename)
    IN  IF TextLen(filename) <= MaxFilenameLen
        THEN [panic |-> FALSE, name |-> IF filename = <<>> THEN <<>> ELSE f.name,
              text |-> filename]
        ELSE IF MaxFilenameLen - TextLen(ext) < 0
        THEN [panic |-> TRUE, name |-> <<>>, text |-> <<>>]
        ELSE [panic |-> FALSE, name |-> Cut(f.name),
              text |-> Prefix(filename, MaxFilenameLen - TextLen(ext)) \o ext]

(* parseContentDisposition (downloader.go 244-275): the value without the *)
(* quotes around it is sanitized; "" without a value                      *)
parseContentDisposition(header) ==
    LET value == Trim(header.text, {"\"", "'"})
    IN  IF value = <<>> THEN [panic |-> FALSE, name |-> <<>>, text |-> <<>>]
        ELSE sanitizeFilename(HintText(header.name, value))

(* What a server can answer: a transport error or timeout, or a status,   *)
(* a 200 with or without a Content-Disposition file name.  cfg.server[id] *)
(* is the set of answers the server of URL id may give during the run.    *)
NetErr == [err |-> TRUE, status |-> 0, cd |-> NoHint]
Status(st) == [err |-> FALSE, status |-> st, cd |-> NoHint]
StatusCD(st, hint) == [err |-> FALSE, status |-> st, cd |-> hint]

(* History: the worker has issued one more request and holds its answer *)
Answered(r, resp) ==
    [r EXCEPT !.gets = @ + 1, !.status = IF resp.err THEN 0 ELSE resp.status]

(* A panic in a goroutine ends the process *)
Crashed(w) ==
    /\ wk' = [x \in DOMAIN wk |->
                [wk[x] EXCEPT !.pc = IF x = w THEN "crash" ELSE "killed"]]
    /\ main' = [main EXCEPT !.pc = "killed"]
    /\ agg' = [agg EXCEPT !.pc = "killed"]

(* HTTPClient.Get returns (downloader.go 132-160) *)
WorkerGet(w) ==
    /\ wk[w].pc = "get"
    /\ \E resp \in cfg.server[wk[w].urls[wk[w].n].id] :
         LET r == Answered(wk[w], resp)
             u == r.urls[r.n]
             cd == parseContentDisposition(resp.cd)
             cdPath == Join(Dir(r.filePath), cd.name)
         IN  IF ~resp.err /\ resp.status = 200 /\ cd.panic
             THEN /\ Crashed(w)
                  /\ hist' = hist
             ELSE /\ wk' = [wk EXCEPT ![w] =
                       IF resp.err
                       THEN Returned(r, DownloadResult(u, r.dest, FALSE, FALSE,
                                                       Err("http", 0)))
                       ELSE IF resp.status # 200
                       THEN Returned(r, DownloadResult(u, r.dest, FALSE, FALSE,
                                                       Err("status", resp.status)))
                       ELSE IF cd.name = <<>>
                       THEN [r EXCEPT !.pc = "create"]
                       ELSE IF Exists(cdPath)
                       THEN Returned(r, DownloadResult(u, cdPath, FALSE, TRUE,
                                                       Err("exists", 2)))
                       ELSE [r EXCEPT !.pc = "create", !.dest = cdPath,
                                      !.cd = resp.cd.text, !.cdFilename = cd.text]]
                  /\ Noted(w)
                  /\ UNCHANGED <<main, agg>>
    /\ UNCHANGED <<cfg, fs, jobs, jobsClosed, results, resultsClosed, stats, summary>>

(* Mutant: one more branch is probed *)
BranchesWithDevelop == <<"main", "master", "develop", "HEAD">>

(* The GitHub branch (downloader.go 59-110): main, master, HEAD are tried *)
(* in turn; the first answer 200 is saved, the others go to the next      *)
Branches == <<"main", "master", "HEAD">>

WorkerGitHubGet(w) ==
    /\ wk[w].pc = "ghget"
    /\ \E resp \in cfg.server[wk[w].urls[wk[w].n].id] :
         LET r == Answered(wk[w], resp)
             u == r.urls[r.n]
         IN  wk' = [wk EXCEPT ![w] =
               IF ~resp.err /\ resp.status = 200
               THEN [r EXCEPT !.pc = "create"]
               ELSE IF r.branch < Len(Branches)
               THEN [r EXCEPT !.branch = r.branch + 1]
               ELSE Returned(r, DownloadResult(u, r.dest, FALSE, FALSE,
                         Err("branches", IF resp.err THEN 0 ELSE resp.status)))]
    /\ Noted(w)
    /\ UNCHANGED <<fs, jobs, results>>
    /\ WorkerFrame

(* os.Create (downloader.go 162-167, 82-86): creates or truncates *)
WorkerCreate(w) ==
    /\ wk[w].pc = "create"
    /\ LET r == wk[w]
           u == r.urls[r.n]
       IN  \E ok \in {TRUE} \cup {FALSE : x \in cfg.faults \cap {"create"}} :
             IF ok /\ r.dest \notin cfg.dirs
             THEN /\ fs' = [p \in DOMAIN fs \cup {r.dest} |->
                              IF p = r.dest
                              THEN [urls |-> <<>>, ok |-> TRUE, by |-> w,
                                    complete |-> FALSE]
                              ELSE fs[p]]
                  /\ wk' = [wk EXCEPT ![w].pc = "copy", ![w].created = TRUE]
             ELSE /\ fs' = fs
                  /\ wk' = [wk EXCEPT ![w] =
                       Returned(r, DownloadResult(u, r.dest, FALSE, FALSE,
                                                  Err("create", 0)))]
    /\ Noted(w)
    /\ UNCHANGED <<jobs, results>>
    /\ WorkerFrame

(* Mutant: the partial file stays when io.Copy fails *)
WorkerCopyKeepsPartial(w) ==
    /\ wk[w].pc = "copy"
    /\ LET r == wk[w]
           u == r.urls[r.n]
       IN  \E ok \in {TRUE} \cup {FALSE : x \in cfg.faults \cap {"write"}} :
             IF ok
             THEN /\ fs' = [p \in DOMAIN fs |->
                              IF p = r.dest /\ fs[p].by = w
                              THEN [fs[p] EXCEPT !.complete = TRUE,
                                                 !.urls = cfg.body[u.id]]
                              ELSE fs[p]]
                  /\ wk' = [wk EXCEPT ![w] =
                       Returned(r, DownloadResult(u, r.dest, TRUE, FALSE, NoError))]
             ELSE /\ fs' = fs
                  /\ wk' = [wk EXCEPT ![w] =
                       Returned(r, DownloadResult(u, r.dest, FALSE, FALSE,
                                                  Err("write", 0)))]
    /\ Noted(w)
    /\ UNCHANGED <<jobs, results>>
    /\ WorkerFrame

(* io.Copy returns (downloader.go 169-183, 88-102): on an error the file *)
(* at the destination path is removed                                     *)
WorkerCopy(w) ==
    /\ wk[w].pc = "copy"
    /\ LET r == wk[w]
           u == r.urls[r.n]
       IN  \E ok \in {TRUE} \cup {FALSE : x \in cfg.faults \cap {"write"}} :
             IF ok
             THEN /\ fs' = [p \in DOMAIN fs |->
                              IF p = r.dest /\ fs[p].by = w
                              THEN [fs[p] EXCEPT !.complete = TRUE,
                                                 !.urls = cfg.body[u.id]]
                              ELSE fs[p]]
                  /\ wk' = [wk EXCEPT ![w] =
                       Returned(r, DownloadResult(u, r.dest, TRUE, FALSE, NoError))]
             ELSE /\ fs' = [p \in DOMAIN fs \ {r.dest} |-> fs[p]]
                  /\ wk' = [wk EXCEPT ![w] =
                       Returned(r, DownloadResult(u, r.dest, FALSE, FALSE,
                                                  Err("write", 0)))]
    /\ Noted(w)
    /\ UNCHANGED <<jobs, results>>
    /\ WorkerFrame

(* results <- result (worker.go 24): blocks while the buffer is full; a *)
(* send on a closed channel panics, and the panic ends the process       *)
CanSendResult == Len(results) < cfg.resultsCap

WorkerSend(w) ==
    /\ wk[w].pc = "send"
    /\ IF resultsClosed
       THEN /\ wk' = [x \in DOMAIN wk |->
                        [wk[x] EXCEPT !.pc = IF x = w THEN "panic" ELSE "killed"]]
            /\ main' = [main EXCEPT !.pc = "killed"]
            /\ agg' = [agg EXCEPT !.pc = "killed"]
            /\ UNCHANGED <<results, hist>>
       ELSE /\ CanSendResult
            /\ results' = Append(results, wk[w].result)
            /\ hist' = [hist EXCEPT !.pushed = @ (+) Bag1(wk[w].result.FilePath)]
            /\ wk' = [wk EXCEPT ![w].pc = "recv", ![w].result = NoResult,
                                ![w].filePath = <<>>, ![w].urls = <<>>, ![w].n = 0]
            /\ UNCHANGED <<main, agg>>
    /\ UNCHANGED <<cfg, fs, jobs, jobsClosed, resultsClosed, stats, summary>>

-----------------------------------------------------------------------------
(* The collector (worker.go 72-93) *)

AggFrame ==
    UNCHANGED <<cfg, fs, main, jobs, jobsClosed, resultsClosed, wk, summary>>

(* for result := range results, a result is buffered; the two           *)
(* atomic.AddInt32 on FilesScanned and URLsFound (worker.go 75-80)        *)
AfterCount(a) ==
    IF a.idx > Len(a.cur.DownloadResults)
    THEN [pc |-> "recv", cur |-> NoResult, idx |-> 0]
    ELSE [a EXCEPT !.pc = "each"]

CollectRecv ==
    /\ agg.pc = "recv"
    /\ Len(results) > 0
    /\ results' = Tail(results)
    /\ stats' = [stats EXCEPT !.FilesScanned = @ + 1,
                              !.URLsFound = @ + Head(results).URLsFound]
    /\ agg' = AfterCount([pc |-> "each", cur |-> Head(results), idx |-> 1])
    /\ hist' = [hist EXCEPT !.consumed = @ (+) Bag1(Head(results).FilePath)]
    /\ AggFrame

(* Mutant: the Skipped branch is missing *)
CountDownloadNoSkip(st, dr) ==
    IF dr.Success THEN [st EXCEPT !.DownloadSuccess = @ + 1]
    ELSE [st EXCEPT !.DownloadFailed = @ + 1]

(* One DownloadResult of the result (worker.go 83-91) *)
CountDownload(st, dr) ==
    IF dr.Success THEN [st EXCEPT !.DownloadSuccess = @ + 1]
    ELSE IF dr.Skipped THEN [st EXCEPT !.DownloadSkipped = @ + 1]
    ELSE [st EXCEPT !.DownloadFailed = @ + 1]

CollectDownload ==
    /\ agg.pc = "each"
    /\ stats' = CountDownload(stats, agg.cur.DownloadResults[agg.idx])
    /\ agg' = AfterCount([agg EXCEPT !.idx = @ + 1])
    /\ UNCHANGED <<results, hist>>
    /\ AggFrame

(* for result := range results, results is closed and drained; wg.Done() *)
CollectExit ==
    /\ agg.pc = "recv"
    /\ Len(results) = 0
    /\ resultsClosed
    /\ agg' = [agg EXCEPT !.pc = "done"]
    /\ UNCHANGED <<results, hist, stats>>
    /\ AggFrame

-----------------------------------------------------------------------------
(* main: the shutdown sequence (main.go 128-142) *)

(* The loop over scanDirs is over: close(jobs) *)
CloseJobs ==
    /\ main.pc = "scan"
    /\ main.root > Len(cfg.scanDirs)
    /\ jobsClosed' = TRUE
    /\ main' = [main EXCEPT !.pc = "waitworkers"]
    /\ UNCHANGED <<cfg, fs, jobs, results, resultsClosed, wk, agg, stats,
                   summary, hist>>

(* Mutant: main does not wait for the workers *)
WorkersNotAwaited == TRUE

WorkersDone == \A w \in DOMAIN wk : wk[w].pc = "done"

(* workerWg.Wait() returns; close(results) *)
CloseResults ==
    /\ main.pc = "waitworkers"
    /\ WorkersDone
    /\ resultsClosed' = TRUE
    /\ main' = [main EXCEPT !.pc = "waitcollector"]
    /\ UNCHANGED <<cfg, fs, jobs, jobsClosed, results, wk, agg, stats,
                   summary, hist>>

(* Mutant: main does not wait for the collector *)
CollectorNotAwaited == TRUE

CollectorDone == agg.pc = "done"

(* collectorWg.Wait() returns; the five atomic.LoadInt32 of the summary *)
PrintSummary ==
    /\ main.pc = "waitcollector"
    /\ CollectorDone
    /\ summary' = <<stats>>
    /\ main' = [main EXCEPT !.pc = "done"]
    /\ UNCHANGED <<cfg, fs, jobs, jobsClosed, results, resultsClosed, wk, agg,
                   stats, hist>>

-----------------------------------------------------------------------------
MainStep ==
    \/ Validate
    \/ StartPipeline
    \/ ScanRoot
    \/ BatchLoop
    \/ BatchDir
    \/ WalkVisit
    \/ WalkSend
    \/ ReadDirStep
    \/ ListSend
    \/ ListEnd
    \/ CloseJobs
    \/ CloseResults
    \/ PrintSummary

WorkerStep(w) ==
    \/ WorkerRecv(w)
    \/ WorkerExit(w)
    \/ WorkerExtract(w)
    \/ WorkerDownload(w)
    \/ WorkerGet(w)
    \/ WorkerGitHubGet(w)
    \/ WorkerCreate(w)
    \/ WorkerCopy(w)
    \/ WorkerSend(w)

CollectStep ==
    \/ CollectRecv
    \/ CollectDownload
    \/ CollectExit

Next ==
    \/ MainStep
    \/ \E w \in DOMAIN wk : WorkerStep(w)
    \/ CollectStep

(* The program is started again with the same flags, over the tree as    *)
(* the run before left it (main.go 42)                                    *)
Rerun ==
    /\ main.pc = "done"
    /\ hist.run < MaxRuns
    /\ cfg' = [cfg EXCEPT !.initial = DOMAIN fs]
    /\ main' = MainStart
    /\ jobs' = <<>>
    /\ jobsClosed' = FALSE
    /\ results' = <<>>
    /\ resultsClosed' = FALSE
    /\ wk' = <<>>
    /\ agg' = [pc |-> "idle", cur |-> NoResult, idx |-> 0]
    /\ stats' = [FilesScanned |-> 0, URLsFound |-> 0, DownloadSuccess |-> 0,
                 DownloadSkipped |-> 0, DownloadFailed |-> 0]
    /\ summary' = <<>>
    /\ hist' = HistStart(hist.run + 1,
                         [succ |-> hist.succ, tried |-> hist.tried,
                          kept |-> {x \in hist.succ : x[2] \in DOMAIN fs}])
    /\ UNCHANGED fs

NextTwice == Next \/ Rerun

-----------------------------------------------------------------------------
(* Directory trees and runs explored *)

R1 == <<Dn(1)>>
R2 == <<Dn(2)>>

Tree(dirs, unreadable, files) ==
    [dirs |-> dirs, unreadable |-> unreadable, files |-> files]

Caps(j, r) == [jobs |-> j, results |-> r]

(* A run of the whole pipeline.  Under R1: two files whose URLs resolve  *)
(* to the same file name, an unreadable file, a file that is not         *)
(* supported; under R1/1: a shortcut to a GitHub repository.             *)
PipelineTree ==
    Tree({R1, Join(R1, Dn(1))}, {},
         (Join(R1, <<1, ".md">>) :> File(<<Url(1)>>, TRUE))
         @@ (Join(R1, <<2, ".MD">>) :> File(<<Url(2)>>, TRUE))
         @@ (Join(R1, <<3, ".txt">>) :> File(<<>>, FALSE))
         @@ (Join(R1, <<5, ".bin">>) :> File(<<Url(3)>>, TRUE))
         @@ (Join(Join(R1, Dn(1)), <<1, ".url">>) :> File(<<Url(4)>>, TRUE)))

(* The bodies the servers send hold no candidate strings *)
NoBodies == [id \in 1..5 |-> <<>>]

PipelineNet ==
    [server |-> [id \in 1..5 |->
                   CASE id = 1 -> {NetErr, Status(200), StatusCD(200, Hint(<<5, ".bin">>, 1, 4))}
                     [] id = 2 -> {Status(404), Status(200)}
                     [] OTHER  -> {Status(200)}],
     faults |-> {"write"}, body |-> NoBodies]

Init ==
    \E workers \in 1..MaxWorkers, recursive \in BOOLEAN :
        Start(PipelineTree, <<R1>>, recursive, workers,
              Caps(SmallCap, SmallCap), PipelineNet)

Spec == Init /\ [][Next]_vars


(* The same tree under every kind of flags: a worker count of -1, 0 or   *)
(* more, no root, the root R1, the missing root R2, R1 followed by R2     *)
InitConfig ==
    \E workers \in (0 - 1)..MaxWorkers,
       scanDirs \in {<<>>, <<R1>>, <<R2>>, <<R1, R2>>} :
        Start(PipelineTree, scanDirs, TRUE, workers,
              Caps(SmallCap, SmallCap), PipelineNet)

SpecConfig == InitConfig /\ [][Next]_vars

(* A run with the channels as main.go makes them: one worker, FullFiles  *)
(* text files without URLs under R1 (the first holds one URL) and a       *)
(* shortcut to a GitHub repository under R1/1; every request answers 200. *)
FullTree ==
    Tree({R1, Join(R1, Dn(1))}, {},
         [p \in {Join(R1, <<k, ".txt">>) : k \in 1..FullFiles} |->
              File(IF Base(p)[1] = 1 THEN <<Url(1)>> ELSE <<>>, TRUE)]
         @@ (Join(Join(R1, Dn(1)), <<1, ".url">>) :> File(<<Url(4)>>, TRUE)))

FullNet ==
    [server |-> [id \in 1..5 |-> {Status(200)}], faults |-> {}, body |-> NoBodies]

InitFull ==
    Start(FullTree, <<R1>>, TRUE, 1, Caps(JobsCapacity, ResultsCapacity), FullNet)

SpecFull == InitFull /\ [][Next]_vars

(* Recursive scans of a root with N subdirectories, N = 1..MaxSubdirs:   *)
(* a shortcut under the first one, a markdown file under the root.        *)
BatchTree(n) ==
    Tree({R1} \cup {Join(R1, Dn(k)) : k \in 1..n}, {},
         (Join(R1, <<1, ".md">>) :> File(<<Url(1)>>, TRUE))
         @@ (Join(Join(R1, Dn(1)), <<1, ".url">>) :> File(<<Url(4)>>, TRUE)))

InitBatch ==
    \E n \in 1..MaxSubdirs :
        Start(BatchTree(n), <<R1>>, TRUE, 1, Caps(SmallCap, SmallCap), FullNet)

SpecBatch == InitBatch /\ [][Next]_vars

(* Scans of small trees: up to MaxScanFiles of the files below, placed    *)
(* under R1, R1/1, R1/1/1, R1/2 and R2; one or two scan roots, disjoint,  *)
(* repeated or nested; R1/1 readable or not.                              *)
ScanA == Join(R1, Dn(1))
ScanA1 == Join(ScanA, Dn(1))
ScanB == Join(R1, Dn(2))
ScanDirs == {R1, ScanA, ScanA1, ScanB, R2}

ScanCandidates ==
    (Join(R1, <<3, ".md">>) :> File(<<Url(1)>>, TRUE))
    @@ (Join(R1, <<4, ".zip">>) :> File(<<>>, TRUE))
    @@ (Join(ScanA, <<1, ".MD">>) :> File(<<>>, TRUE))
    @@ (Join(ScanA1, <<1, ".url">>) :> File(<<Url(4)>>, TRUE))
    @@ (Join(ScanB, <<1, ".htm">>) :> File(<<>>, TRUE))
    @@ (Join(R2, <<1, ".txt">>) :> File(<<Url(5)>>, TRUE))

ScanRootLists ==
    {<<R1>>, <<R2>>, <<R1, R2>>, <<R2, R1>>, <<ScanA, ScanB>>,
     <<R1, R1>>, <<R1, ScanA>>, <<ScanA1, ScanA>>}

InitScan ==
    \E present \in SUBSET DOMAIN ScanCandidates,
       scanDirs \in ScanRootLists,
       recursive \in BOOLEAN,
       unreadable \in {{}, {ScanA}} :
        /\ Cardinality(present) <= MaxScanFiles
        /\ Start(Tree(ScanDirs, unreadable, [p \in present |-> ScanCandidates[p]]),
                 scanDirs, recursive, 1, Caps(SmallCap, SmallCap), FullNet)

SpecScan == InitScan /\ [][Next]_vars

(* Runs over one file of every supported type under R1 whose text holds   *)
(* up to MaxTokens candidate strings, any of the thirteen, and a shortcut *)
(* to a GitHub repository under R1/1.                                     *)
RECURSIVE SeqsUpTo(_, _)
SeqsUpTo(S, n) ==
    IF n = 0 THEN {<<>>}
    ELSE LET shorter == SeqsUpTo(S, n - 1)
         IN  shorter \cup {Append(q, x) : q \in shorter, x \in S}

ExtractTree(ext, text) ==
    Tree({R1, Join(R1, Dn(1))}, {},
         (Join(R1, <<2, ext>>) :> File(text, TRUE))
         @@ (Join(Join(R1, Dn(1)), <<1, ".url">>) :> File(<<Url(4)>>, TRUE)))

InitExtract ==
    \E ext \in supportedExtensions \cup {".MD"},
       text \in SeqsUpTo(Candidates, MaxTokens) :
        Start(ExtractTree(ext, text), <<R1>>, TRUE, 1, Caps(SmallCap, SmallCap),
              FullNet)

SpecExtract == InitExtract /\ [][Next]_vars

(* Runs that exercise the downloader.  Under R1: two shortcuts whose      *)
(* first URLs resolve to the same file name, the second one also naming   *)
(* a GitHub repository; a file 5.bin that is there before the run.        *)
(* Under R1/1: a text file without URLs.                                  *)
(* Server 1 answers 200, with no file name, with the name 5.bin, with a   *)
(* name of 250 characters before a 4-character extension, or with a name  *)
(* whose extension has 201 characters; server 2 fails or answers 404,     *)
(* 204 or 200; the archive server answers 404 or 200.                     *)
(* os.Create and io.Copy can fail.                                        *)
DownloadTree ==
    Tree({R1, Join(R1, Dn(1))}, {},
         (Join(R1, <<1, ".url">>) :> File(<<Url(1)>>, TRUE))
         @@ (Join(R1, <<2, ".url">>) :> File(<<Url(2), Url(4)>>, TRUE))
         @@ (Join(R1, <<5, ".bin">>) :> File(<<>>, TRUE))
         @@ (Join(Join(R1, Dn(1)), <<1, ".txt">>) :> File(<<>>, TRUE)))

DownloadNet ==
    [server |-> [id \in 1..5 |->
                   CASE id = 1 -> {Status(200),
                                   StatusCD(200, Hint(<<5, ".bin">>, 1, 4)),
                                   StatusCD(200, Hint(<<3, ".zip">>, 250, 4)),
                                   StatusCD(200, Hint(<<4, ".x">>, 1, 201))}
                     [] id = 2 -> {NetErr, Status(404), Status(204), Status(200)}
                     [] id = 4 -> {Status(404), Status(200)}
                     [] OTHER  -> {Status(200)}],
     faults |-> {"create", "write"}, body |-> NoBodies]

InitDownload ==
    \E workers \in 1..MaxWorkers :
        Start(DownloadTree, <<R1>>, TRUE, workers, Caps(SmallCap, SmallCap),
              DownloadNet)

SpecDownload == InitDownload /\ [][Next]_vars

(* Runs of the program one after another over the same tree.  Under R1: *)
(* a markdown file with the URL of an HTML page, whose body holds one     *)
(* more URL, and a shortcut with two URLs that resolve to the same file   *)
(* name; under R1/1: a shortcut to a GitHub repository.  Server 1 always  *)
(* answers 200 with the file name 5.bin, server 2 answers 404 or 200, the *)
(* others 200.                                                            *)
TwiceTree ==
    Tree({R1, Join(R1, Dn(1))}, {},
         (Join(R1, <<1, ".md">>) :> File(<<Url(5)>>, TRUE))
         @@ (Join(R1, <<2, ".url">>) :> File(<<Url(1), Url(2)>>, TRUE))
         @@ (Join(Join(R1, Dn(1)), <<1, ".url">>) :> File(<<Url(4)>>, TRUE)))

TwiceNet ==
    [server |-> [id \in 1..5 |->
                   CASE id = 1 -> {StatusCD(200, Hint(<<5, ".bin">>, 1, 4))}
                     [] id = 2 -> {Status(404), Status(200)}
                     [] OTHER  -> {Status(200)}],
     faults |-> {},
     body |-> [id \in 1..5 |-> IF id = 5 THEN <<Url(3)>> ELSE <<>>]]

InitTwice ==
    \E workers \in 1..MaxWorkers :
        Start(TwiceTree, <<R1>>, TRUE, workers, Caps(SmallCap, SmallCap), TwiceNet)

SpecTwice == InitTwice /\ [][NextTwice]_vars

(* Runs of one worker on either platform: under R1/1 a markdown file with *)
(* a URL whose last path segment is ..\7.zip and one whose last segment   *)
(* is "..", under R1 a shortcut to a GitHub repository; every request     *)
(* answers 200.                                                           *)
TraverseTree ==
    Tree({R1, Join(R1, Dn(1))}, {},
         (Join(Join(R1, Dn(1)), <<1, ".md">>) :> File(<<Url(14), Url(15)>>, TRUE))
         @@ (Join(R1, <<1, ".url">>) :> File(<<Url(4)>>, TRUE)))

TraverseNet(goos) ==
    [server |-> [id \in 1..15 |-> {Status(200)}], faults |-> {},
     body |-> [id \in 1..15 |-> <<>>], goos |-> goos]

InitTraverse ==
    \E goos \in {"linux", "windows"} :
        Start(TraverseTree, <<R1>>, TRUE, 1, Caps(SmallCap, SmallCap),
              TraverseNet(goos))

SpecTraverse == InitTraverse /\ [][Next]_vars

(* Runs of one worker in which the server of http://a.io/7.zip answers    *)
(* 200 with a Content-Disposition file name drawn from the texts of up to *)
(* MaxParts runs: letters, dots, spaces, an invalid character, and runs   *)
(* that take the name beyond 200 characters.                              *)
Parts == {<<"a", 1>>, <<".", 1>>, <<" ", 1>>, <<"<", 1>>, <<"a", 199>>, <<"b", 201>>}

Texts == UNION {[1..n -> Parts] : n \in 1..MaxParts}

SanitizeTree ==
    Tree({R1, Join(R1, Dn(1))}, {},
         (Join(Join(R1, Dn(1)), <<1, ".md">>) :> File(<<Url(1)>>, TRUE))
         @@ (Join(R1, <<1, ".url">>) :> File(<<Url(4)>>, TRUE)))

SanitizeNet(text) ==
    [server |-> [id \in 1..5 |->
                   IF id = 1 THEN {StatusCD(200, HintText(<<5, ".bin">>, text))}
                   ELSE {Status(200)}],
     faults |-> {}, body |-> NoBodies]

InitSanitize ==
    \E text \in Texts :
        Start(SanitizeTree, <<R1>>, TRUE, 1, Caps(SmallCap, SmallCap),
              SanitizeNet(text))

SpecSanitize == InitSanitize /\ [][Next]_vars

(* Runs of one worker over the same tree with the root given once or     *)
(* twice                                                                  *)
InitRepeat ==
    \E scanDirs \in {<<R1>>, <<R1, R1>>}, recursive \in BOOLEAN :
        Start(TwiceTree, scanDirs, recursive, 1, Caps(SmallCap, SmallCap), TwiceNet)

SpecRepeat == InitRepeat /\ [][Next]_vars

(* The same runs under fair scheduling: main, the pool of workers and    *)
(* the collector each take a step eventually when they can (the Go        *)
(* scheduler runs every runnable goroutine, and every HTTP request        *)
(* returns within the client timeout)                                     *)
FairSpec ==
    /\ Spec
    /\ WF_vars(MainStep)
    /\ WF_vars(\E w \in DOMAIN wk : WorkerStep(w))
    /\ WF_vars(CollectStep)

-----------------------------------------------------------------------------
(* Properties *)

BagOfSeq(q) == [x \in Range(q) |-> Cardinality({i \in 1..Len(q) : q[i] = x})]

Busy(w) == wk[w].pc \notin {"recv", "done"}
Held == [p \in {wk[w].filePath : w \in {x \in DOMAIN wk : Busy(x)}} |->
           Cardinality({w \in DOMAIN wk : Busy(w) /\ wk[w].filePath = p})]
Queued == BagOfSeq([i \in 1..Len(results) |-> results[i].FilePath])
Finished == main.pc = "done"

(* C1: every path put on jobs is taken off by exactly one worker, which  *)
(* pushes exactly one Result for it, which the collector consumes exactly *)
(* once before the shutdown sequence completes: at every moment the paths *)
(* enqueued are the ones taken plus the ones buffered, the ones taken are *)
(* the ones pushed plus the ones a worker holds, the ones pushed are the  *)
(* ones consumed plus the ones buffered in results, and when main is done *)
(* both channels are empty and every path enqueued has been consumed.     *)
C1_NoJobLost ==
    /\ BagOfSeq(hist.enq) = hist.taken (+) BagOfSeq(jobs)
    /\ hist.taken = hist.pushed (+) Held
    /\ hist.pushed = hist.consumed (+) Queued
    /\ Finished => /\ jobs = <<>>
                   /\ results = <<>>
                   /\ hist.consumed = BagOfSeq(hist.enq)
                   /\ \A w \in DOMAIN wk : ~Busy(w)
                   /\ agg.pc = "done"

C1_Witness ==
    /\ Finished
    /\ cfg.workers = 2
    /\ Len(hist.enq) = 4
    /\ BagCardinality(hist.consumed) = 4

(* C2: results is closed only after jobs has been closed and every one of *)
(* the W workers has signalled completion; no worker ever sends on the    *)
(* closed results channel; jobs is closed only after the scanner has      *)
(* finished every scan root.                                              *)
C2_CloseOrder ==
    /\ resultsClosed => /\ jobsClosed
                        /\ DOMAIN wk = 1..cfg.workers
                        /\ \A w \in DOMAIN wk : wk[w].pc = "done"
    /\ \A w \in DOMAIN wk : wk[w].pc # "panic"
    /\ jobsClosed => /\ main.root > Len(cfg.scanDirs)
                     /\ main.pc \in {"waitworkers", "waitcollector", "done"}

C2_Witness ==
    /\ resultsClosed
    /\ cfg.workers = 2
    /\ BagCardinality(hist.pushed) = 4

(* C3: main reads the five counters only after the collector has seen     *)
(* results closed and empty and has terminated; at that read both         *)
(* channels are empty and no worker is processing a job, and no counter   *)
(* changes afterwards: what was printed stays equal to the counters.      *)
C3_ReadAfterBarrier ==
    summary # <<>> =>
        /\ agg.pc = "done"
        /\ resultsClosed
        /\ jobs = <<>>
        /\ results = <<>>
        /\ \A w \in DOMAIN wk : wk[w].pc = "done"
        /\ summary[1] = stats

C3_Witness ==
    /\ summary # <<>>
    /\ summary[1].FilesScanned = 4
    /\ summary[1].DownloadSuccess >= 1
    /\ summary[1].DownloadFailed >= 1

(* C4: under fair scheduling, every download call returning, the run     *)
(* always reaches the state where main has printed the final statistics,  *)
(* whatever the worker count, the number of files (more than both         *)
(* channels hold together) and the mix of failures; no run gets stuck.    *)
C4_Terminates == <>(Finished /\ summary # <<>>)

C4_Witness ==
    /\ Finished
    /\ Len(hist.enq) > cfg.jobsCap + cfg.resultsCap
    /\ hist.made.failed >= 1
    /\ \E p \in DOMAIN fs : ~fs[p].ok

(* C5: for each Result the collector takes, FilesScanned grows by 1 and   *)
(* URLsFound by the Result's URL count; for each DownloadResult in it     *)
(* exactly one of the three download counters grows by 1, the one of its  *)
(* status; at completion FilesScanned is the number of jobs enqueued and  *)
(* each download counter the number of outcomes of that status.           *)
C5_TakeStep ==
    results' # results /\ Len(results') < Len(results) =>
        /\ stats'.FilesScanned = stats.FilesScanned + 1
        /\ stats'.URLsFound = stats.URLsFound + Head(results).URLsFound
        /\ stats'.DownloadSuccess = stats.DownloadSuccess
        /\ stats'.DownloadSkipped = stats.DownloadSkipped
        /\ stats'.DownloadFailed = stats.DownloadFailed

C5_EachStep ==
    agg.pc = "each" /\ agg' # agg =>
        LET dr == agg.cur.DownloadResults[agg.idx]
            one(b) == IF b THEN 1 ELSE 0
        IN  /\ stats'.FilesScanned = stats.FilesScanned
            /\ stats'.URLsFound = stats.URLsFound
            /\ stats'.DownloadSuccess = stats.DownloadSuccess + one(dr.Success)
            /\ stats'.DownloadSkipped =
                   stats.DownloadSkipped + one(~dr.Success /\ dr.Skipped)
            /\ stats'.DownloadFailed =
                   stats.DownloadFailed + one(~dr.Success /\ ~dr.Skipped)

C5_Final ==
    Finished =>
        /\ stats.FilesScanned = Len(hist.enq)
        /\ stats.DownloadSuccess = hist.made.success
        /\ stats.DownloadSkipped = hist.made.skipped
        /\ stats.DownloadFailed = hist.made.failed

C5_Counting == [][C5_TakeStep /\ C5_EachStep]_vars /\ []C5_Final

C5_Witness ==
    /\ Finished
    /\ stats.FilesScanned = 4
    /\ stats.DownloadSuccess >= 1
    /\ stats.DownloadSkipped >= 1
    /\ stats.DownloadFailed >= 1

(* C6: no step of a run decreases any of the five counters, and only the  *)
(* collector's loop changes them: a step of main (the scanner included)   *)
(* or of a worker leaves all five unchanged.                              *)
C6_Step ==
    /\ stats'.FilesScanned >= stats.FilesScanned
    /\ stats'.URLsFound >= stats.URLsFound
    /\ stats'.DownloadSuccess >= stats.DownloadSuccess
    /\ stats'.DownloadSkipped >= stats.DownloadSkipped
    /\ stats'.DownloadFailed >= stats.DownloadFailed
    /\ (main' # main \/ wk' # wk) => stats' = stats
    /\ stats' # stats => /\ agg.pc \in {"recv", "each"}
                         /\ results' # results \/ agg' # agg

C6_OnlyCollector == [][C6_Step]_vars

C6_Witness ==
    /\ Finished
    /\ stats.URLsFound >= 3
    /\ stats.DownloadSuccess + stats.DownloadSkipped + stats.DownloadFailed >= 3

(* C7: at every moment at most W downloads are in flight; a worker starts *)
(* the download of the next URL of its file only after the previous       *)
(* outcome has been appended to the Result, and takes the next job only   *)
(* after pushing the Result of the current one.                           *)
InFlight(w) == wk[w].pc \in {"get", "ghget", "create", "copy"}
Downloading(w) == wk[w].pc \in {"dl", "get", "ghget", "create", "copy"}

C7_BoundedSequential ==
    /\ Cardinality({w \in DOMAIN wk : InFlight(w)}) <= cfg.workers
    /\ \A w \in DOMAIN wk :
         /\ Downloading(w) =>
              /\ wk[w].n \in 1..Len(wk[w].urls)
              /\ Len(wk[w].result.DownloadResults) = wk[w].n - 1
              /\ \A i \in 1..(wk[w].n - 1) :
                   wk[w].result.DownloadResults[i].URL = wk[w].urls[i].id
         /\ wk[w].pc \in {"recv", "extract", "done"} => wk[w].result = NoResult
    /\ BagCardinality(hist.taken) - BagCardinality(hist.pushed) <= cfg.workers
    /\ \A w1, w2 \in DOMAIN wk :
         Busy(w1) /\ Busy(w2) /\ wk[w1].filePath = wk[w2].filePath => w1 = w2

C7_Witness ==
    /\ cfg.workers = 2
    /\ \A w \in DOMAIN wk : InFlight(w)
    /\ \E w \in DOMAIN wk : wk[w].pc = "copy"

(* C8: with the channels made as in main.go, jobs never holds more than  *)
(* 100 paths and results never more than 100 Results; while jobs is full  *)
(* the scanner's send is not enabled, and while results is full no        *)
(* worker's push is enabled; only a receive makes room again.             *)
C8_Capacity ==
    /\ Len(jobs) <= JobsCapacity
    /\ Len(results) <= ResultsCapacity
    /\ Len(jobs) = JobsCapacity => ~ENABLED ListSend /\ ~ENABLED WalkSend
    /\ Len(results) = ResultsCapacity =>
           \A w \in DOMAIN wk : ~ENABLED WorkerSend(w)

C8_Witness ==
    /\ cfg.jobsCap = JobsCapacity
    /\ Len(jobs) = JobsCapacity
    /\ main.pc = "list"
    /\ main.todo # <<>>

(* The other half of the case: results full with a worker waiting to push *)
ResultsFullBlocked ==
    /\ cfg.resultsCap = ResultsCapacity
    /\ Len(results) = ResultsCapacity
    /\ \E w \in DOMAIN wk : wk[w].pc = "send"

(* C9: what the scanner enqueues.  A file is expected when it was there  *)
(* at the start, has a supported extension and lies directly in a root    *)
(* (non-recursive) or anywhere under a root (recursive).                  *)
Roots == Range(cfg.scanDirs)

Covered(p) ==
    \E r \in Roots : IF cfg.recursive THEN IsPrefix(r, Dir(p)) ELSE r = Dir(p)

Expected ==
    {p \in cfg.initial : ToLower(Ext(p)) \in supportedExtensions /\ Covered(p)}

(* Two roots of the list reach a common directory *)
RootsOverlap ==
    \E i, j \in 1..Len(cfg.scanDirs) :
        /\ i # j
        /\ IF cfg.recursive THEN IsPrefix(cfg.scanDirs[i], cfg.scanDirs[j])
                            ELSE cfg.scanDirs[i] = cfg.scanDirs[j]

(* C9 as claimed, read in its favour for trees whose directories can all *)
(* be read: for any list of roots, when the scan is over every expected   *)
(* file has been enqueued exactly once and nothing else has.              *)
C9_Original ==
    cfg.unreadable = {} /\ jobsClosed => BagOfSeq(hist.enq) = SetToBag(Expected)

(* C9, amended: the same when every directory is readable and no two      *)
(* roots of the list reach a common directory; a file never goes on the   *)
(* queue twice before the scan is over either.                            *)
C9_EnqueuedOnce ==
    cfg.unreadable = {} /\ ~RootsOverlap =>
        /\ \A p \in Range(hist.enq) : p \in Expected /\ CopiesIn(p, BagOfSeq(hist.enq)) = 1
        /\ jobsClosed => BagOfSeq(hist.enq) = SetToBag(Expected)

C9_Witness ==
    /\ jobsClosed
    /\ cfg.unreadable = {}
    /\ ~RootsOverlap
    /\ cfg.recursive
    /\ Len(cfg.scanDirs) = 2
    /\ Len(hist.enq) = 2
    /\ \E p \in Range(hist.enq) : Ext(p) = ".MD"
    /\ \E p \in Range(hist.enq) : Len(p) = 4
    /\ \E p \in cfg.initial : ~Covered(p)

(* C10 as claimed: N > 0 subdirectories are grouped into exactly          *)
(* ceil(N/10) batches.                                                    *)
BatchesFormed == main.pc \in {"readdir", "list"} /\ main.subdirs # <<>>

C10_Original ==
    BatchesFormed => Len(main.batches) = CeilDiv(Len(main.subdirs), BatchDivisor)

(* C10, amended: N > 0 subdirectories are grouped into consecutive        *)
(* batches of ceil(N/10) each, so into ceil(N / ceil(N/10)) batches, at   *)
(* most 10, all of that size except possibly the last, which is smaller.  *)
C10_Batches ==
    LET n == Len(main.subdirs)
        b == CeilDiv(n, BatchDivisor)
        m == Len(main.batches)
    IN  /\ \A i \in 1..(m - 1) : main.batches[i] = b
        /\ m > 0 => main.batches[m] \in 1..b
        /\ BatchesFormed =>
             /\ m = CeilDiv(n, b)
             /\ m <= BatchDivisor
             /\ (m - 1) * b + main.batches[m] = n

C10_Witness ==
    /\ BatchesFormed
    /\ Len(main.subdirs) = 11
    /\ Len(main.batches) = 6
    /\ main.batches[6] = 1

(* C11: the list the extractor hands the worker, for a file of any        *)
(* supported type and any text: no string occurs in it twice, and every   *)
(* string starts with http:// or https://, has at least 10 characters     *)
(* and contains none of example.com, example.org, localhost, 127.0.0.1    *)
(* in any case.                                                           *)
Extracted(w) == wk[w].pc \notin {"recv", "extract", "done"}

C11_Valid(url) ==
    /\ HasPrefix(url, Http) \/ HasPrefix(url, Https)
    /\ Len(url) >= 10
    /\ \A b \in Blacklist : ~Contains(StringsToLower(url), b)

C11_NoDuplicates ==
    \A w \in DOMAIN wk :
        Extracted(w) =>
            LET urls == wk[w].urls
            IN  /\ \A i, j \in 1..Len(urls) :
                       i # j => Text(urls[i].id) # Text(urls[j].id)
                /\ \A i \in 1..Len(urls) : C11_Valid(Text(urls[i].id))

(* The DownloadResults there are: in a worker's Result, in a Result on    *)
(* the results channel, in the Result the collector is counting           *)
Outcomes ==
    UNION ({Range(wk[w].result.DownloadResults) : w \in DOMAIN wk}
           \cup {Range(results[i].DownloadResults) : i \in 1..Len(results)}
           \cup {Range(agg.cur.DownloadResults)})

(* The step in which worker w returns from downloadURL with outcome dr *)
Returns(w, dr) ==
    /\ w \in DOMAIN wk'
    /\ Len(wk'[w].result.DownloadResults) = Len(wk[w].result.DownloadResults) + 1
    /\ dr = wk'[w].result.DownloadResults[Len(wk'[w].result.DownloadResults)]

(* C12 as claimed: a call that returns Skipped has issued no request and  *)
(* has not written.                                                       *)
C12_Original ==
    \A dr \in Outcomes : dr.Skipped => dr.Gets = 0 /\ ~dr.Created

(* C12, amended: a call that returns Skipped has not created, truncated   *)
(* or removed any file, and the step in which it returns leaves the disk  *)
(* as it is; it has issued no request when the existence check on the     *)
(* name resolved from the URL decided, and exactly one when the check on  *)
(* the name of the Content-Disposition header decided.                    *)
C12_SkipState ==
    \A dr \in Outcomes :
        dr.Skipped =>
            LET first == Join(Dir(dr.FilePath), FirstName(Url(dr.URL)))
            IN  /\ ~dr.Success
                /\ ~dr.Created
                /\ dr.Error.kind = "exists"
                /\ dr.Error.code = 1 => dr.Gets = 0 /\ dr.FilePath = first
                /\ dr.Error.code = 2 => dr.Gets = 1 /\ ~Url(dr.URL).gh
                /\ dr.Error.code \in {1, 2}

C12_SkipStep ==
    \A w \in DOMAIN wk :
        (\E dr \in Outcomes' : Returns(w, dr) /\ dr.Skipped) => fs' = fs

C12_SkipWritesNothing == []C12_SkipState /\ [][C12_SkipStep]_vars

C12_Witness ==
    \E dr \in Outcomes :
        /\ dr.Skipped
        /\ dr.Gets = 1
        /\ dr.FilePath = Join(R1, <<5, ".bin">>)
        /\ fs[dr.FilePath].by = 0

(* The other case: the first existence check decides *)
C12_FirstCheckSkip == \E dr \in Outcomes : dr.Skipped /\ dr.Gets = 0

(* C13: no download truncates or rewrites a file that is at its           *)
(* destination path when the write begins, whatever the interleaving of   *)
(* two or more workers, also when two jobs of one directory resolve to    *)
(* the same file name: no step replaces a file that exists by a freshly   *)
(* created one.                                                           *)
Truncates(p) ==
    /\ p \in DOMAIN fs
    /\ p \in DOMAIN fs'
    /\ fs'[p] # fs[p]
    /\ ~fs'[p].complete

C13_NeverOverwrites == [][\A p \in DOMAIN fs : ~Truncates(p)]_vars

(* C14: when two workers race between the existence check and the         *)
(* creation of one destination path, at no moment are two workers         *)
(* streaming response bodies into that path.                              *)
Streaming(w) == wk[w].pc = "copy"

C14_NoConcurrentStreams ==
    \A w1, w2 \in DOMAIN wk :
        Streaming(w1) /\ Streaming(w2) /\ wk[w1].dest = wk[w2].dest => w1 = w2

(* C15 as claimed: in a run over the tree as the run before left it,      *)
(* every download of a URL that succeeded in the run before is Skipped,   *)
(* and nothing is downloaded with success that the run before had         *)
(* downloaded or had not attempted.                                       *)
C15_Original ==
    hist.run > 1 =>
        \A dr \in Outcomes :
            /\ dr.URL \in {x[1] : x \in hist.first.succ} => dr.Skipped
            /\ dr.Success => dr.URL \in hist.first.tried

(* C15, amended: in such a run, every download of a URL into a directory  *)
(* where the run before downloaded that URL with success, the file it     *)
(* wrote being still there, is Skipped and adds nothing to the successes  *)
(* (the servers answering as before).                                     *)
KeptIn(url, dir) == \E x \in hist.first.kept : x[1] = url /\ Dir(x[2]) = dir

C15_SecondRun ==
    hist.run > 1 =>
        \A dr \in Outcomes :
            KeptIn(dr.URL, Dir(dr.FilePath)) => dr.Skipped /\ ~dr.Success

C15_Witness ==
    /\ hist.run = 2
    /\ \E dr \in Outcomes : KeptIn(dr.URL, Dir(dr.FilePath)) /\ dr.Gets = 1
    /\ \E dr \in Outcomes : KeptIn(dr.URL, Dir(dr.FilePath)) /\ dr.Gets = 0
    /\ \E dr \in Outcomes : dr.Success /\ dr.URL \notin hist.first.tried

(* C16 as claimed: a download call issues at most one HTTP GET. *)
C16_Original ==
    /\ \A dr \in Outcomes : dr.Gets <= 1
    /\ \A w \in DOMAIN wk : wk[w].gets <= 1

(* C16, amended: a download call issues at most one GET for a URL that is *)
(* not a GitHub repository URL, and for a GitHub repository URL at most   *)
(* one per branch archive main, master, HEAD, each tried once, in order.  *)
MostGets(u) == IF u.gh THEN Cardinality({"main", "master", "HEAD"}) ELSE 1

C16_GetsBounded ==
    /\ \A dr \in Outcomes : dr.Gets <= MostGets(Url(dr.URL))
    /\ \A w \in DOMAIN wk :
          /\ wk[w].gets > 0 => wk[w].gets <= MostGets(wk[w].urls[wk[w].n])
          /\ wk[w].pc = "ghget" => wk[w].gets = wk[w].branch - 1
          /\ wk[w].pc = "get" => wk[w].gets = 0

C16_Witness ==
    /\ \E dr \in Outcomes : Url(dr.URL).gh /\ dr.Gets = 3 /\ ~dr.Success
    /\ \E dr \in Outcomes : ~Url(dr.URL).gh /\ dr.Gets = 1 /\ dr.Success

(* C17: no download call panics, whatever file name the Content-          *)
(* Disposition header of the response carries.                            *)
C17_NeverPanics == \A w \in DOMAIN wk : wk[w].pc # "crash"

(* C18: a download call that returns Failed leaves no file of its own,    *)
(* partial or complete, at its destination path.  After a transport       *)
(* error, a status other than 200 or a failed os.Create the call has      *)
(* created no file and the disk is as it was; after a failed write the    *)
(* destination path holds no file.  For a status the error carries the   *)
(* number the server answered.                                            *)
Failed(dr) == ~dr.Success /\ ~dr.Skipped

C18_FailedState ==
    \A dr \in Outcomes :
        Failed(dr) =>
            /\ dr.Error.kind \in {"http", "status", "branches", "create", "write"}
            /\ dr.Created <=> dr.Error.kind = "write"
            /\ dr.Error.kind = "status" =>
                  /\ dr.Error.code # 200
                  /\ dr.Error.code \in
                        {resp.status : resp \in {x \in cfg.server[dr.URL] : ~x.err}}

C18_FailedStep ==
    \A w \in DOMAIN wk :
        \A dr \in Outcomes' :
            Returns(w, dr) /\ Failed(dr) =>
                /\ ~dr.Created => fs' = fs
                /\ dr.Created => dr.FilePath \notin DOMAIN fs'
                /\ dr.FilePath \in DOMAIN fs' => fs'[dr.FilePath].by # w

C18_FailedLeavesNoFile == []C18_FailedState /\ [][C18_FailedStep]_vars

C18_Witness ==
    /\ \E dr \in Outcomes :
          Failed(dr) /\ dr.Error.kind = "write" /\ dr.FilePath \notin DOMAIN fs
    /\ \E dr \in Outcomes : Failed(dr) /\ dr.Error = Err("status", 404)

(* The other failures: a transport error, a status 204, a failed          *)
(* os.Create, every branch of a GitHub repository answering 404           *)
C18_OtherFailures ==
    /\ \E dr \in Outcomes : Failed(dr) /\ dr.Error.kind \in {"http", "create"}
    /\ \E dr \in Outcomes : Failed(dr) /\ dr.Error \in {Err("status", 204), Err("branches", 404)}

(* C19: with a worker count <= 0, no scan root, or a scan root that does  *)
(* not exist, the program ends in validation: the channels are never      *)
(* made, no worker and no collector is started, no file is scanned,       *)
(* nothing is downloaded, nothing is counted or written.                  *)
BadFlags ==
    \/ cfg.workers <= 0
    \/ Len(cfg.scanDirs) = 0
    \/ \E r \in 1..Len(cfg.scanDirs) : cfg.scanDirs[r] \notin cfg.dirs

C19_AbortsBeforeStart ==
    BadFlags =>
        /\ main.pc \in {"validate", "fatal"}
        /\ wk = <<>>
        /\ agg.pc = "idle"
        /\ jobs = <<>> /\ results = <<>>
        /\ ~jobsClosed /\ ~resultsClosed
        /\ hist = HistStart(1, NoFirstRun)
        /\ \A f \in DOMAIN stats : stats[f] = 0
        /\ summary = <<>>
        /\ fs = PipelineTree.files

C19_Witness ==
    /\ main.pc = "fatal"
    /\ cfg.workers > 0
    /\ cfg.scanDirs = <<R1, R2>>

(* The other cases: a worker count <= 0 with good roots, no root *)
C19_BadWorkers == main.pc = "fatal" /\ cfg.workers <= 0 /\ cfg.scanDirs = <<R1>>
C19_NoRoots == main.pc = "fatal" /\ cfg.workers > 0 /\ cfg.scanDirs = <<>>

(* C20: for a job whose file the extractor cannot read, the worker sends  *)
(* exactly one Result, with URLsFound 0 and no DownloadResults, calls     *)
(* downloadURL for none, and receives the next job; the collector counts  *)
(* the file in FilesScanned, and the steps on that job change no other    *)
(* worker and not the collector.                                          *)
Unreadable(p) == p # <<>> /\ ExtractFails(p)

Results ==
    {wk[w].result : w \in DOMAIN wk} \cup Range(results) \cup {agg.cur}

Times(p, q) == Cardinality({i \in 1..Len(q) : q[i] = p})

C20_State ==
    /\ \A r \in Results :
          Unreadable(r.FilePath) => r.URLsFound = 0 /\ r.DownloadResults = <<>>
    /\ \A w \in DOMAIN wk :
          Unreadable(wk[w].filePath) =>
              /\ wk[w].pc \in {"extract", "send"}
              /\ wk[w].urls = <<>>
              /\ wk[w].gets = 0 /\ ~wk[w].created
    /\ \A p \in Range(hist.enq) :
          Unreadable(p) =>
              /\ CopiesIn(p, hist.consumed) <= CopiesIn(p, hist.pushed)
              /\ CopiesIn(p, hist.pushed) <= CopiesIn(p, hist.taken)
              /\ CopiesIn(p, hist.taken) <= Times(p, hist.enq)
              /\ Finished => CopiesIn(p, hist.consumed) = Times(p, hist.enq)
    /\ Finished => stats.FilesScanned = Len(hist.enq)

C20_Step ==
    \A w \in DOMAIN wk :
        Unreadable(wk[w].filePath) /\ wk' # wk /\ w \in DOMAIN wk' /\ wk'[w] # wk[w] =>
            /\ \A x \in DOMAIN wk \ {w} : wk'[x] = wk[x]
            /\ agg' = agg /\ stats' = stats /\ fs' = fs /\ main' = main
            /\ wk[w].pc = "extract" => wk'[w].pc = "send" /\ results' = results
            /\ wk[w].pc = "send" =>
                  /\ wk'[w].pc = "recv"
                  /\ results' = Append(results, NewResult(wk[w].filePath, 0))

C20_ReadFailure == []C20_State /\ [][C20_Step]_vars

C20_Witness ==
    /\ Finished
    /\ \E p \in Range(hist.enq) : Unreadable(p) /\ CopiesIn(p, hist.consumed) = 1
    /\ stats.FilesScanned = 4
    /\ stats.URLsFound = 3
    /\ stats.DownloadSuccess >= 2

(* C25: every Result that leaves a worker holds one DownloadResult per    *)
(* URL of its file, in the order of the URLs, and when the run is over    *)
(* URLsFound = DownloadSuccess + DownloadSkipped + DownloadFailed.        *)
C25_OutcomePerURL ==
    /\ \A w \in DOMAIN wk :
          LET drs == wk[w].result.DownloadResults
          IN  /\ Len(drs) <= wk[w].result.URLsFound
              /\ wk[w].pc = "send" => Len(drs) = wk[w].result.URLsFound
              /\ Len(drs) > 0 =>
                    /\ Len(wk[w].urls) = wk[w].result.URLsFound
                    /\ \A i \in 1..Len(drs) : drs[i].URL = wk[w].urls[i].id
    /\ \A r \in Range(results) \cup {agg.cur} :
          Len(r.DownloadResults) = r.URLsFound
    /\ Finished =>
          stats.URLsFound =
              stats.DownloadSuccess + stats.DownloadSkipped + stats.DownloadFailed

C25_Witness ==
    /\ Finished
    /\ stats.URLsFound = 3
    /\ stats.DownloadSuccess = 1
    /\ stats.DownloadSkipped = 1
    /\ stats.DownloadFailed = 1

(* C26: when the run is over, the file of every download reported as      *)
(* Success is at its destination path, whatever the interleaving of the   *)
(* workers: no cleanup after a failed write removes it.                   *)
C26_SuccessKept ==
    Finished => \A x \in hist.succ : x[2] \in DOMAIN fs

(* C22 as claimed: a call that received a response is reported Failed     *)
(* because of the status exactly when the status is outside 200..299.     *)
Responded(dr) == dr.Gets > 0 /\ dr.Status # 0 /\ ~Url(dr.URL).gh

StatusFailed(dr) == Failed(dr) /\ dr.Error.kind = "status"

C22_Original ==
    \A dr \in Outcomes :
        Responded(dr) => (StatusFailed(dr) <=> dr.Status \notin 200..299)

(* What the code does: a call is reported Failed because of the status    *)
(* exactly when the status is not 200, and the error carries it; only a   *)
(* 200 goes on to the Content-Disposition name, os.Create and io.Copy.    *)
(* For a GitHub repository URL a status other than 200 goes to the next   *)
(* branch, and the call is Failed when the last branch does not answer    *)
(* 200.                                                                   *)
C22_Only200 ==
    /\ \A dr \in Outcomes :
          /\ Responded(dr) =>
                /\ StatusFailed(dr) <=> dr.Status # 200
                /\ StatusFailed(dr) => dr.Error.code = dr.Status
          /\ dr.Gets > 0 /\ Url(dr.URL).gh =>
                (Failed(dr) /\ dr.Error.kind = "branches" <=> dr.Status # 200)
          /\ dr.Created \/ dr.Success \/ dr.Error.kind \in {"create", "write"}
                => dr.Status = 200
    /\ \A w \in DOMAIN wk :
          wk[w].pc \in {"create", "copy"} => wk[w].status = 200

C22_Witness ==
    /\ \E dr \in Outcomes : StatusFailed(dr) /\ dr.Status = 204
    /\ \E dr \in Outcomes : Responded(dr) /\ dr.Status = 200 /\ dr.Success

(* C24: in recursive mode, a root without immediate subdirectories, or    *)
(* whose listing fails, gets one non-recursive scan and no walk; a root   *)
(* with subdirectories has its own entries read once, after the walk of   *)
(* every subdirectory has returned, batch by batch in order; no failure   *)
(* ends the run, and the scanner goes on to every root of the list.       *)
RootDir(k) == cfg.scanDirs[k]

FallsBack(k) == ~Readable(RootDir(k)) \/ Len(getSubdirectories(RootDir(k))) = 0

WalkedOf(k) ==
    LET own(x) == x[1] = k
        sel == SelectSeq(hist.walked, own)
    IN  [i \in 1..Len(sel) |-> sel[i][2]]

C24_RootScannedOnce ==
    cfg.recursive =>
        /\ hist.scans = [i \in 1..Len(hist.scans) |-> i]
        /\ main.pc \in {"batch", "batchdir", "walk", "emit", "readdir"} =>
              Len(hist.scans) = main.root - 1
        /\ main.pc = "list" => Len(hist.scans) = main.root
        /\ main.pc # "fatal"
        /\ jobsClosed => Len(hist.scans) = Len(cfg.scanDirs)
        /\ \A k \in 1..Len(cfg.scanDirs) :
              IF FallsBack(k)
              THEN WalkedOf(k) = <<>>
              ELSE /\ IsPrefix(WalkedOf(k), getSubdirectories(RootDir(k)))
                   /\ k \in Range(hist.scans) =>
                         WalkedOf(k) = getSubdirectories(RootDir(k))

C24_Witness ==
    /\ cfg.recursive
    /\ jobsClosed
    /\ cfg.scanDirs = <<R1, ScanA>>
    /\ cfg.unreadable = {ScanA}
    /\ hist.scans = <<1, 2>>
    /\ hist.walked = <<<<1, ScanA>>, <<1, ScanB>>>>
    /\ Len(hist.enq) >= 2

(* The other fallback: a root that has no subdirectory *)
C24_NoSubdirs ==
    /\ cfg.recursive
    /\ jobsClosed
    /\ cfg.scanDirs = <<R2, R1>>
    /\ hist.scans = <<1, 2>>
    /\ \E p \in Range(hist.enq) : Dir(p) = R2

(* C27: every path enqueued during a run was in the tree when the run     *)
(* started, a file a download wrote during the run is never enqueued, and *)
(* when the scan is over the set of the paths enqueued is the set of the  *)
(* supported files the start tree holds under the roots, whatever the     *)
(* scheduling of the workers.                                             *)
C27_EnqueuedFromStart ==
    /\ \A p \in Range(hist.enq) : p \in cfg.initial
    /\ jobsClosed => Range(hist.enq) = Expected

(* C21: every file a download creates lies directly in the directory of   *)
(* the source file whose URL caused it, whatever the path of the URL and  *)
(* the Content-Disposition name: no download writes to another directory. *)
C21_BesideSource ==
    /\ \A w \in DOMAIN wk :
          wk[w].pc \in {"create", "copy"} => Dir(wk[w].dest) = Dir(wk[w].filePath)
    /\ \A r \in Results :
          \A dr \in Range(r.DownloadResults) :
              dr.Created => Dir(dr.FilePath) = Dir(r.FilePath)
    /\ \A p \in DOMAIN fs \ cfg.initial :
          \E q \in cfg.initial : Dir(q) = Dir(p)

(* C23: whatever the input, the sanitized file name contains none of the  *)
(* characters < > : " / \ | ? *, neither starts nor ends with whitespace  *)
(* or a dot, is at most 200 characters long and, when the input was       *)
(* longer than 200, ends with the extension of the input.                 *)
Edge == Whitespace \cup {"."}

C23_Sanitized ==
    \A w \in DOMAIN wk :
        LET in == wk[w].cd
            out == wk[w].cdFilename
        IN  out # <<>> =>
              /\ \A i \in 1..Len(out) : out[i][1] \notin Invalid
              /\ out[1][1] \notin Edge
              /\ out[Len(out)][1] \notin Edge
              /\ TextLen(out) <= MaxFilenameLen
              /\ TextLen(in) > MaxFilenameLen => filepathExt(out) = filepathExt(in)

(* The file name ". a" has become " a" *)
C23_LeadingSpace ==
    \E w \in DOMAIN wk :
        /\ wk[w].cd = << <<".", 1>>, <<" ", 1>>, <<"a", 1>> >>
        /\ wk[w].cdFilename = << <<" ", 1>>, <<"a", 1>> >>

=============================================================================
